---- MODULE Spec2Model ----
(***************************************************************************)
(* Model of utils/generate_HC_realigned_bams.py (and the row parser it     *)
(* shares with utils/exac_vcf.py): sample selection (choose_samples), the  *)
(* sharded scan of the site stream (main) and the two progress tables.     *)
(*                                                                         *)
(* Two specifications:                                                     *)
(*   SpecSel  choose_samples run statement by statement on a genotype map  *)
(*            whose entries are drawn as the filter loop reaches them;     *)
(*   Spec     n_threads instances of main() scanning the same site stream. *)
(*                                                                         *)
(* Strings that the code takes apart (alleles) are sequences of one-letter *)
(* strings.  Sample names are the column numbers of the header.            *)
(***************************************************************************)
EXTENDS Integers, Sequences, FiniteSets, TLC

\* ------------------------------------------------------------------ bounds
\* sample columns of the row parsed in SpecRow
NumDecSamples == 2
\* bases of the longest allele handed to get_minimal_representation in SpecMin
MaxAlleleLen == 3
\* samples (columns) of the genotype map handed to choose_samples in SpecSel
NumSelSamples == 6
\* longest site stream of Spec
MaxSites == 2
\* largest --n-threads of Spec
MaxShards == 2

\* ------------------------------------------------------- program constants
MAX_SAMPLES_TO_SHOW_PER_VARIANT == 5
MAX_ALLELE_LENGTH == 75
MIN_DP == 10
MIN_GQ == 20
\* Python's None, a value no allele index, GQ or DP token parses to
None == -1000

Min(a, b) == IF a <= b THEN a ELSE b

\* ---------------------------------------------------------- get_bam_path
\* A bam path of the info table: the parts get_bam_path rewrites, and the file.
\* root "/cga/pancan2/" stands for a path under /cga/pancan2/picard_bams/ext_tcga,
\* version "/v1/" for any match of /v[0-9]{1,2}/.
BamPath(root, cont, version, file) ==
    [root |-> root, cont |-> cont, version |-> version, file |-> file]

\* lines 49-56: the three rewrites of the recorded path
relocated_bam_path(bam_path) ==
    [bam_path EXCEPT
        !.root    = IF @ = "/cga/pancan2/" THEN "/cga/fh/cga_pancan2/" ELSE @,
        !.cont    = IF @ = "CONT_" THEN "CONT" ELSE @,
        !.version = IF @ = "/v1/" THEN "/current/" ELSE @]

\* lines 39-62.  readable_paths: the paths os.access(.., R_OK) accepts.
\* raised = IOError.
get_bam_path(sample_name, sample_name_to_bam_path, readable_paths) ==
    LET bam_path == relocated_bam_path(sample_name_to_bam_path[sample_name])
    IN  [raised |-> bam_path \notin readable_paths, bam_path |-> bam_path]

\* -------------------------------------------------------- choose_samples
\* mutant: the het test looks at gt_alt alone
has_desired_genotype_alt_only(het_or_hom, alt_allele_index, gt_ref, gt_alt) ==
    /\ ~(gt_ref = None /\ gt_alt = None)
    /\ IF het_or_hom = "het"
       THEN /\ ~(gt_ref = gt_alt)
            /\ ~(gt_alt # alt_allele_index)
       ELSE /\ ~(gt_ref # gt_alt)
            /\ ~(gt_alt # alt_allele_index)

\* lines 87-99: not a no-call, and of the wanted genotype class
has_desired_genotype(het_or_hom, alt_allele_index, gt_ref, gt_alt) ==
    /\ ~(gt_ref = None /\ gt_alt = None)
    /\ IF het_or_hom = "het"
       THEN /\ ~(gt_ref = gt_alt)
            /\ ~(gt_ref # alt_allele_index /\ gt_alt # alt_allele_index)
       ELSE /\ ~(gt_ref # gt_alt)
            /\ ~(gt_alt # alt_allele_index)

\* mutant: a sample is dropped only when both thresholds fail
passes_Adj_thresholds_and(GQ, DP) == ~(DP < MIN_DP /\ GQ < MIN_GQ)

\* lines 103-104: the _Adj thresholds
passes_Adj_thresholds(GQ, DP) == ~(DP < MIN_DP \/ GQ < MIN_GQ)

\* lines 86-106, one iteration of the loop over genotypes.items().
\* g = [sample_name, gt_ref, gt_alt, GQ, DP].  raised = KeyError of
\* sample_name_include_status[sample_name] for a name the info table lacks.
filter_sample(relevant_samples, het_or_hom, alt_allele_index, g, sample_name_include_status) ==
    IF ~has_desired_genotype(het_or_hom, alt_allele_index, g.gt_ref, g.gt_alt)
    THEN [raised |-> FALSE, relevant_samples |-> relevant_samples]
    ELSE IF ~passes_Adj_thresholds(g.GQ, g.DP)
    THEN [raised |-> FALSE, relevant_samples |-> relevant_samples]
    ELSE IF g.sample_name \notin DOMAIN sample_name_include_status
    THEN [raised |-> TRUE, relevant_samples |-> relevant_samples]
    ELSE IF sample_name_include_status[g.sample_name]
    THEN [raised |-> FALSE,
          relevant_samples |-> Append(relevant_samples,
                                      [sample_name |-> g.sample_name, GQ |-> g.GQ])]
    ELSE [raised |-> FALSE, relevant_samples |-> relevant_samples]

\* mutant: an element goes in front of the earlier elements of equal GQ
RECURSIVE insert_by_GQ_unstable(_, _)
insert_by_GQ_unstable(sorted, s) ==
    IF sorted = <<>> THEN <<s>>
    ELSE IF Head(sorted).GQ > s.GQ
         THEN <<Head(sorted)>> \o insert_by_GQ_unstable(Tail(sorted), s)
         ELSE <<s>> \o sorted

\* line 114: list.sort(key=GQ, reverse=True) is stable: an element goes behind
\* every element of greater or equal GQ that came before it.
RECURSIVE insert_by_GQ(_, _)
insert_by_GQ(sorted, s) ==
    IF sorted = <<>> THEN <<s>>
    ELSE IF Head(sorted).GQ >= s.GQ
         THEN <<Head(sorted)>> \o insert_by_GQ(Tail(sorted), s)
         ELSE <<s>> \o sorted

RECURSIVE sort_by_GQ_reverse(_)
sort_by_GQ_reverse(samples) ==
    IF samples = <<>> THEN <<>>
    ELSE insert_by_GQ(sort_by_GQ_reverse(SubSeq(samples, 1, Len(samples) - 1)),
                      samples[Len(samples)])

\* mutant: off by one in the while condition
more_to_display_off_by_one(relevant_samples, bams_to_display) ==
    relevant_samples # <<>> /\ Len(bams_to_display) <= MAX_SAMPLES_TO_SHOW_PER_VARIANT

\* line 116: the while condition
more_to_display(relevant_samples, bams_to_display) ==
    relevant_samples # <<>> /\ Len(bams_to_display) < MAX_SAMPLES_TO_SHOW_PER_VARIANT

\* mutant: the IOError ends the selection
display_next_abort(relevant_samples, bams_to_display, sample_name_to_bam_path, sample_name_to_gvcf_path, readable_paths) ==
    LET max_GQ_sample == relevant_samples[1]
        sample_name   == max_GQ_sample.sample_name
        found         == get_bam_path(sample_name, sample_name_to_bam_path, readable_paths)
    IN  IF found.raised
        THEN [relevant_samples |-> <<>>, bams_to_display |-> bams_to_display]
        ELSE [relevant_samples |-> Tail(relevant_samples),
              bams_to_display  |->
                 Append(bams_to_display,
                        <<found.bam_path, sample_name_to_gvcf_path[sample_name]>>)]

\* lines 119-129, one iteration of the while loop: the IOError is caught
display_next(relevant_samples, bams_to_display, sample_name_to_bam_path, sample_name_to_gvcf_path, readable_paths) ==
    LET max_GQ_sample == relevant_samples[1]
        sample_name   == max_GQ_sample.sample_name
        found         == get_bam_path(sample_name, sample_name_to_bam_path, readable_paths)
    IN  [relevant_samples |-> Tail(relevant_samples),
         bams_to_display  |->
            IF found.raised THEN bams_to_display
            ELSE Append(bams_to_display,
                        <<found.bam_path, sample_name_to_gvcf_path[sample_name]>>)]

RECURSIVE filter_loop(_, _, _, _, _)
filter_loop(relevant_samples, het_or_hom, alt_allele_index, genotypes, sample_name_include_status) ==
    IF genotypes = <<>> THEN [raised |-> FALSE, relevant_samples |-> relevant_samples]
    ELSE LET r == filter_sample(relevant_samples, het_or_hom, alt_allele_index,
                                Head(genotypes), sample_name_include_status)
         IN  IF r.raised THEN r
             ELSE filter_loop(r.relevant_samples, het_or_hom, alt_allele_index,
                              Tail(genotypes), sample_name_include_status)

RECURSIVE display_loop(_, _, _, _, _)
display_loop(relevant_samples, bams_to_display, sample_name_to_bam_path, sample_name_to_gvcf_path, readable_paths) ==
    IF ~more_to_display(relevant_samples, bams_to_display) THEN bams_to_display
    ELSE LET r == display_next(relevant_samples, bams_to_display, sample_name_to_bam_path,
                               sample_name_to_gvcf_path, readable_paths)
         IN  display_loop(r.relevant_samples, r.bams_to_display, sample_name_to_bam_path,
                          sample_name_to_gvcf_path, readable_paths)

\* lines 65-131.  genotypes: the map as the sequence of its items, in
\* insertion (column) order.  raised = the KeyError that leaves the function.
choose_samples(het_or_hom, alt_allele_index, genotypes, sample_name_include_status, sample_name_to_bam_path, sample_name_to_gvcf_path, readable_paths) ==
    LET f == filter_loop(<<>>, het_or_hom, alt_allele_index, genotypes,
                         sample_name_include_status)
    IN  IF f.raised THEN [raised |-> TRUE, bams_to_display |-> <<>>]
        ELSE [raised |-> FALSE,
              bams_to_display |->
                 display_loop(sort_by_GQ_reverse(f.relevant_samples), <<>>,
                              sample_name_to_bam_path, sample_name_to_gvcf_path,
                              readable_paths)]

\* ------------------------------------------------ get_minimal_representation
\* vcf/minimal_representation.py is not among the sources; modelled from its
\* contract: strip the shared suffix, then the shared prefix (advancing pos),
\* never emptying either allele.
RECURSIVE strip_suffix(_, _)
strip_suffix(ref, alt) ==
    IF Min(Len(ref), Len(alt)) > 1 /\ ref[Len(ref)] = alt[Len(alt)]
    THEN strip_suffix(SubSeq(ref, 1, Len(ref) - 1), SubSeq(alt, 1, Len(alt) - 1))
    ELSE <<ref, alt>>

RECURSIVE strip_prefix(_, _, _)
strip_prefix(pos, ref, alt) ==
    IF Min(Len(ref), Len(alt)) > 1 /\ ref[1] = alt[1]
    THEN strip_prefix(pos + 1, Tail(ref), Tail(alt))
    ELSE <<pos, ref, alt>>

\* a variant that drops one shared trailing base only
get_minimal_representation_one_base(pos, ref, alt) ==
    LET s == IF Min(Len(ref), Len(alt)) > 1 /\ ref[Len(ref)] = alt[Len(alt)]
             THEN <<SubSeq(ref, 1, Len(ref) - 1), SubSeq(alt, 1, Len(alt) - 1)>>
             ELSE <<ref, alt>>
    IN strip_prefix(pos, s[1], s[2])

get_minimal_representation(pos, ref, alt) ==
    LET s == strip_suffix(ref, alt) IN strip_prefix(pos, s[1], s[2])

\* ---------------------------------------------------------- vcf_row_parser
\* int(): the tokens it accepts, with their values; any other token raises
IntTokens == ("0" :> 0) @@ ("1" :> 1) @@ ("2" :> 2) @@ ("3" :> 3) @@ ("-1" :> (0 - 1))
\* float(): the tokens it accepts
FloatTokens == ("0" :> 0) @@ ("9" :> 9) @@ ("10" :> 10) @@ ("19" :> 19) @@ ("20" :> 20)
               @@ ("30" :> 30) @@ ("99" :> 99)

expected_genotype_format == "GT:AD:DP:GQ:PL"

\* mutant: only the field that float() refuses is set to 0
parse_genotype_each_field(sample_name, genotype, n_alt) ==
    IF genotype.GT = <<".", ".">>
    THEN [raised |-> FALSE, sample_name |-> sample_name,
          gt_ref |-> None, gt_alt |-> None, GQ |-> None, DP |-> None]
    ELSE IF Len(genotype.GT) # 2
    THEN [raised |-> TRUE, sample_name |-> sample_name,
          gt_ref |-> None, gt_alt |-> None, GQ |-> None, DP |-> None]
    ELSE IF genotype.GT[1] \notin DOMAIN IntTokens \/ genotype.GT[2] \notin DOMAIN IntTokens
    THEN [raised |-> TRUE, sample_name |-> sample_name,
          gt_ref |-> None, gt_alt |-> None, GQ |-> None, DP |-> None]
    ELSE LET gt_ref == IntTokens[genotype.GT[1]]
             gt_alt == IntTokens[genotype.GT[2]]
         IN  [raised |-> ~(gt_ref <= n_alt /\ gt_alt <= n_alt),
              sample_name |-> sample_name,
              gt_ref |-> gt_ref, gt_alt |-> gt_alt,
              GQ |-> IF genotype.GQ \in DOMAIN FloatTokens
                     THEN FloatTokens[genotype.GQ] ELSE 0,
              DP |-> IF genotype.DP \in DOMAIN FloatTokens
                     THEN FloatTokens[genotype.DP] ELSE 0]

\* lines 176-201, one sample column.  genotype = [GT, GQ, DP]: GT the token
\* split at "/", GQ and DP the tokens at GQ_idx and DP_idx.  n_alt = len(alt).
\* raised: the unpacking of a GT that has not two parts, the comparison of an
\* unparsed index with len(alt), or the assertion of line 190.
parse_genotype(sample_name, genotype, n_alt) ==
    IF genotype.GT = <<".", ".">>
    THEN [raised |-> FALSE, sample_name |-> sample_name,
          gt_ref |-> None, gt_alt |-> None, GQ |-> None, DP |-> None]
    ELSE IF Len(genotype.GT) # 2
    THEN [raised |-> TRUE, sample_name |-> sample_name,
          gt_ref |-> None, gt_alt |-> None, GQ |-> None, DP |-> None]
    ELSE IF genotype.GT[1] \notin DOMAIN IntTokens \/ genotype.GT[2] \notin DOMAIN IntTokens
    THEN [raised |-> TRUE, sample_name |-> sample_name,
          gt_ref |-> None, gt_alt |-> None, GQ |-> None, DP |-> None]
    ELSE LET gt_ref == IntTokens[genotype.GT[1]]
             gt_alt == IntTokens[genotype.GT[2]]
             parsed == genotype.GQ \in DOMAIN FloatTokens /\ genotype.DP \in DOMAIN FloatTokens
         IN  [raised |-> ~(gt_ref <= n_alt /\ gt_alt <= n_alt),
              sample_name |-> sample_name,
              gt_ref |-> gt_ref, gt_alt |-> gt_alt,
              GQ |-> IF parsed THEN FloatTokens[genotype.GQ] ELSE 0,
              DP |-> IF parsed THEN FloatTokens[genotype.DP] ELSE 0]

\* lines 160-203.  fields = [chrom, pos, ref, alt, format, genotypes], alt
\* already split at ","; sample_names from the header (line 150).
vcf_row_parser(sample_names, fields) ==
    LET calls == [i \in 1..Min(Len(sample_names), Len(fields.genotypes)) |->
                    parse_genotype(sample_names[i], fields.genotypes[i], Len(fields.alt))]
    IN  [raised |-> \/ fields.format # expected_genotype_format
                    \/ Len(sample_names) # Len(fields.genotypes)
                    \/ \E i \in DOMAIN calls : calls[i].raised,
         chrom |-> fields.chrom, pos |-> fields.pos, ref |-> fields.ref,
         alt_alleles |-> fields.alt,
         genotypes |-> [i \in DOMAIN calls |->
                          [sample_name |-> calls[i].sample_name,
                           gt_ref |-> calls[i].gt_ref, gt_alt |-> calls[i].gt_alt,
                           GQ |-> calls[i].GQ, DP |-> calls[i].DP]]]

\* ------------------------------------------------------------------- main
\* mutant: the index of the command line is used as it is
thread_i_not_converted(cli_thread_i) == cli_thread_i

\* lines 721-722 and 739: the command line counts instances from 1
zero_based_thread_i(cli_thread_i) == cli_thread_i - 1

\* mutant: every instance acts on every site
owns_every_site(sites, n_threads, thread_i) == TRUE

\* line 490: the site this instance acts on
owns_site(sites, n_threads, thread_i) == ~(sites % n_threads # thread_i)

\* mutant: the bounds of a region are exclusive
overlapping_regions_exclusive(intervals, chrom, minrep_pos) ==
    {r \in intervals : r.chrom = chrom /\ r.start < minrep_pos /\ r.end > minrep_pos}

\* lines 519-520: the SELECT on the intervals table
overlapping_regions(intervals, chrom, minrep_pos) ==
    {r \in intervals : r.chrom = chrom /\ r.start <= minrep_pos /\ r.end >= minrep_pos}

\* lines 210-223 with line 604: the output path relative to bam_output_dir
\* (the two sub-directories are functions of minrep_pos)
compute_reassembled_bam_path(chrom, minrep_pos, minrep_ref, minrep_alt, het_or_hom, sample_i) ==
    [chrom |-> chrom, minrep_pos |-> minrep_pos,
     minrep_ref |-> SubSeq(minrep_ref, 1, Min(Len(minrep_ref), MAX_ALLELE_LENGTH)),
     minrep_alt |-> SubSeq(minrep_alt, 1, Min(Len(minrep_alt), MAX_ALLELE_LENGTH)),
     het_or_hom |-> het_or_hom, sample_i |-> sample_i]

\* the key columns of a row of either table
KeyOf(row) == <<row.chrom, row.minrep_pos, row.minrep_ref, row.minrep_alt>>

\* mutant: INSERT without the unique index variant_idx
insert_plain(t, row) == t \cup {row}

\* mutant: INSERT OR REPLACE
insert_or_replace(t, row) == {r \in t : KeyOf(r) # KeyOf(row)} \cup {row}

\* lines 567 and 577: INSERT OR IGNORE under the unique index variant_idx
insert_or_ignore(t, row) ==
    IF \E r \in t : KeyOf(r) = KeyOf(row) THEN t ELSE t \cup {row}

\* a variant that sets the flag and leaves the lists of bams alone
update_finished_flag_only(t, key, bams_het, bams_hom) ==
    {IF KeyOf(r) = key THEN [r EXCEPT !.finished = 1] ELSE r : r \in t}

\* lines 665-671: UPDATE t SET finished=1, ... WHERE <key>
update_finished(t, key, bams_het, bams_hom) ==
    {IF KeyOf(r) = key
     THEN [r EXCEPT !.finished = 1, !.reassembled_bams_het = bams_het,
                    !.reassembled_bams_hom = bams_hom]
     ELSE r : r \in t}

\* ------------------------------------------------------------- info table
\* lines 405-418: the three maps read from the info table (one row per name)
InfoBamPath(sample_name)  == BamPath("/cga/pancan2/", "CONT_", "/v1/", sample_name)
InfoGvcfPath(sample_name) == <<"gvcf", sample_name>>

\* The info table of Spec: samples 1, 2 and 4 with Include = YES and sample 3
\* with Include = NO; the bam of sample 2 is not readable.
sample_names == <<1, 2, 3, 4>>
sample_name_include_status == (1 :> TRUE) @@ (2 :> TRUE) @@ (3 :> FALSE) @@ (4 :> TRUE)
sample_name_to_bam_path == [n \in {1, 2, 3, 4} |-> InfoBamPath(n)]
sample_name_to_gvcf_path == [n \in {1, 2, 3, 4} |-> InfoGvcfPath(n)]
readable_bam_paths == {relocated_bam_path(InfoBamPath(n)) : n \in {1, 3, 4}}

\* ---------------------------------------------------------------- state
VARIABLES
    \* choose_samples, statement by statement (SpecSel)
    sel_pc,             \* "filter", "display", "returned", "raised"; "off" in Spec
    sel_het_or_hom,     \* argument het_or_hom
    sel_alt_allele_index,
    sel_seen,           \* number of items of the genotype map iterated so far
    sel_last,           \* the item the filter loop looked at last, with its include status
    relevant_samples,
    bams_to_display,
    sel_item,           \* history: sample name -> the item of the genotype map it came
                        \* from, for the samples on relevant_samples or displayed
    sel_ranked,         \* history: relevant_samples as line 114 left it
    sel_failed,         \* history: the samples whose get_bam_path raised
    \* main(), one instance per shard (Spec); inputs first
    n_threads,          \* --n-threads
    stream,             \* the rows vcf_iterator yields, the same for every instance
    intervals,          \* the rows of the intervals table
    run_haplotype_caller,
    create_links_to_original_bams,
    choices,            \* what choose_samples returns on the rows of stream, tabulated
    reassembled_bams,   \* the readable output bams under bam_output_dir (shared)
    \* per instance, indexed by the --thread-i of its command line (1..n_threads)
    pc,                 \* "scan", "allele", "private", "samples", "update", "finished",
                        \* "crashed"
    sites,              \* counters["    sites"]
    row,                \* chrom, pos, ref, alt_alleles, genotypes of line 496
    alt_allele_index,   \* index of enumerate(alt_alleles), 0-based
    variant,            \* chrom, minrep_*, region_start, region_end of the loop body
    chosen_samples,     \* [het, hom]
    het_or_hom,
    sample_i,
    relative_reassembled_bam_paths,   \* [het, hom]
    variants_db,        \* table t of the public db, a set of rows
    variants_db2,       \* table t of the private db, a set of rows
    \* vcf_row_parser and choose_samples on one row (SpecRow)
    dec_pc,             \* "read", "parsed", "raised", "chosen"; "off" elsewhere
    dec_fields,         \* the row handed to vcf_row_parser
    dec_row,            \* what vcf_row_parser returned
    dec_choice,         \* what choose_samples returned, with its arguments
    \* get_minimal_representation on one variant (SpecMin)
    min_pc,             \* "input", "once", "twice"; "off" elsewhere
    min_in,             \* (pos, ref, alt) of line 501
    min_out,            \* what get_minimal_representation returned
    min_again,          \* what it returned on min_out
    hc_failed,          \* history: a caller run for the current variant failed
    bam_events,         \* history: <<output path, "found" or "called">> for the samples
                        \* of the current variant under --run-haplotype-caller
    acted               \* history: the site counters this instance acted on

sel_vars == <<sel_pc, sel_het_or_hom, sel_alt_allele_index, sel_seen, sel_last,
              relevant_samples, bams_to_display, sel_item, sel_ranked, sel_failed>>

dec_vars == <<dec_pc, dec_fields, dec_row, dec_choice>>

min_vars == <<min_pc, min_in, min_out, min_again>>

input_vars == <<n_threads, stream, intervals, run_haplotype_caller,
                create_links_to_original_bams, choices>>

main_vars == <<reassembled_bams, pc, sites, row, alt_allele_index, variant, chosen_samples,
               het_or_hom, sample_i, relative_reassembled_bam_paths, variants_db,
               variants_db2, hc_failed, bam_events, acted>>

vars == <<sel_vars, dec_vars, min_vars, input_vars, main_vars>>

\* ------------------------------------------------------------- SpecSel
\* (gt_ref, gt_alt, GQ, DP) as the row parser yields them
GenotypeInputs ==
    { <<None, None, None, None>>,
      <<0, 0, 30, 10>>,
      <<0, 1, 30, 10>>, <<1, 2, 20, 20>>, <<0, 2, 30, 10>>,
      <<1, 1, 20, 10>>, <<1, 1, 30, 10>>, <<2, 2, 30, 10>>,
      <<0, 1, 19, 10>>, <<0, 1, 30, 9>>, <<1, 1, 19, 9>> }

IncludeInputs == {"YES", "NO", "absent"}

NoItem == [sample_name |-> 0, gt_ref |-> None, gt_alt |-> None, GQ |-> None, DP |-> None,
           include |-> "absent"]

\* no row is parsed on its own
DecOff == dec_pc = "off" /\ dec_fields = <<>> /\ dec_row = <<>> /\ dec_choice = <<>>

\* no variant is reduced on its own
MinOff == min_pc = "off" /\ min_in = <<>> /\ min_out = <<>> /\ min_again = <<>>

\* no instance of main() runs
MainOff ==
    /\ n_threads = 0 /\ stream = <<>> /\ intervals = {}
    /\ run_haplotype_caller = FALSE /\ create_links_to_original_bams = FALSE
    /\ choices = <<>>
    /\ reassembled_bams = {}
    /\ pc = <<>> /\ sites = <<>> /\ row = <<>> /\ alt_allele_index = <<>> /\ variant = <<>>
    /\ chosen_samples = <<>> /\ het_or_hom = <<>> /\ sample_i = <<>>
    /\ relative_reassembled_bam_paths = <<>>
    /\ variants_db = <<>> /\ variants_db2 = <<>> /\ hc_failed = <<>> /\ bam_events = <<>>
    /\ acted = <<>>

SelInit ==
    /\ sel_pc = "filter"
    /\ sel_het_or_hom \in {"het", "hom"}
    /\ sel_alt_allele_index \in {1, 2}
    /\ sel_seen = 0
    /\ sel_last = NoItem
    /\ relevant_samples = <<>>
    /\ bams_to_display = <<>>
    /\ sel_item = <<>>
    /\ sel_ranked = <<>>
    /\ sel_failed = {}
    /\ DecOff
    /\ MinOff
    /\ MainOff

\* lines 86-106: the loop takes the next item of the genotype map
SelFilter ==
    /\ sel_pc = "filter"
    /\ sel_seen < NumSelSamples
    /\ \E gt \in GenotypeInputs, include \in IncludeInputs :
          LET g == [sample_name |-> sel_seen + 1, gt_ref |-> gt[1], gt_alt |-> gt[2],
                    GQ |-> gt[3], DP |-> gt[4]]
              status == IF include = "absent" THEN <<>>
                        ELSE (g.sample_name :> (include = "YES"))
              r == filter_sample(relevant_samples, sel_het_or_hom, sel_alt_allele_index,
                                 g, status)
              item == [sample_name |-> g.sample_name, gt_ref |-> g.gt_ref,
                       gt_alt |-> g.gt_alt, GQ |-> g.GQ, DP |-> g.DP,
                       include |-> include]
          IN  /\ sel_last' = item
              /\ relevant_samples' = r.relevant_samples
              /\ sel_item' = IF r.relevant_samples # relevant_samples
                             THEN sel_item @@ (g.sample_name :> item)
                             ELSE sel_item
              /\ sel_pc' = IF r.raised THEN "raised" ELSE "filter"
    /\ sel_seen' = sel_seen + 1
    /\ UNCHANGED <<sel_het_or_hom, sel_alt_allele_index, bams_to_display, sel_ranked,
                   sel_failed>>
    /\ UNCHANGED <<dec_vars, min_vars, input_vars, main_vars>>

\* line 114: the map is exhausted; sort
SelSort ==
    /\ sel_pc = "filter"
    /\ relevant_samples' = sort_by_GQ_reverse(relevant_samples)
    /\ sel_pc' = "display"
    /\ sel_ranked' = sort_by_GQ_reverse(relevant_samples)
    /\ sel_last' = NoItem
    /\ UNCHANGED <<sel_het_or_hom, sel_alt_allele_index, sel_seen, bams_to_display,
                   sel_item, sel_failed>>
    /\ UNCHANGED <<dec_vars, min_vars, input_vars, main_vars>>

\* lines 116-129: one iteration of the while loop; the bam is readable or not
SelDisplay ==
    /\ sel_pc = "display"
    /\ more_to_display(relevant_samples, bams_to_display)
    /\ \E readable \in BOOLEAN :
          LET name == relevant_samples[1].sample_name
              paths == IF readable THEN {relocated_bam_path(InfoBamPath(name))} ELSE {}
              r == display_next(relevant_samples, bams_to_display,
                                [n \in {name} |-> InfoBamPath(n)],
                                [n \in {name} |-> InfoGvcfPath(n)], paths)
          IN  /\ relevant_samples' = r.relevant_samples
              /\ bams_to_display' = r.bams_to_display
              /\ sel_failed' = IF readable THEN sel_failed ELSE sel_failed \cup {name}
    /\ UNCHANGED <<sel_pc, sel_het_or_hom, sel_alt_allele_index, sel_seen, sel_last,
                   sel_item, sel_ranked>>
    /\ UNCHANGED <<dec_vars, min_vars, input_vars, main_vars>>

\* line 131
SelReturn ==
    /\ sel_pc = "display"
    /\ ~more_to_display(relevant_samples, bams_to_display)
    /\ sel_pc' = "returned"
    /\ UNCHANGED <<sel_het_or_hom, sel_alt_allele_index, sel_seen, sel_last,
                   relevant_samples, bams_to_display, sel_item, sel_ranked, sel_failed>>
    /\ UNCHANGED <<dec_vars, min_vars, input_vars, main_vars>>

NextSel == SelFilter \/ SelSort \/ SelDisplay \/ SelReturn

SpecSel == SelInit /\ [][NextSel]_vars

\* ------------------------------------------------------------------ Spec
\* choose_samples is not run statement by statement
SelOff ==
    /\ sel_pc = "off" /\ sel_het_or_hom = "het" /\ sel_alt_allele_index = 0
    /\ sel_seen = 0 /\ sel_last = NoItem /\ relevant_samples = <<>>
    /\ bams_to_display = <<>> /\ sel_item = <<>> /\ sel_ranked = <<>> /\ sel_failed = {}

\* one sample column of a row: GT split at "/", and the GQ and DP tokens
Call(a, b, GQ, DP) == [GT |-> <<a, b>>, GQ |-> GQ, DP |-> DP]
NoCall == [GT |-> <<".", ".">>, GQ |-> ".", DP |-> "."]
Row(pos, ref, alt, genotypes) ==
    [chrom |-> "1", pos |-> pos, ref |-> ref, alt |-> alt,
     format |-> expected_genotype_format, genotypes |-> genotypes]

\* The rows a stream is made of.
\*   1: AT>AG at 10, minimal T>G at 11; sample 1 het
\*   2: T>G at 11, the same minimal variant; sample 1 hom, sample 4 het,
\*      sample 2 het with an unreadable bam, sample 3 het with Include = NO
\*   3: every sample a no-call
\*   4: two alternate alleles; sample 1 is 1/2
SiteChoices ==
    { Row(10, <<"A", "T">>, << <<"A", "G">> >>,
          << Call("0", "1", "30", "20"), NoCall, Call("0", "0", "99", "30"), NoCall >>),
      Row(11, <<"T">>, << <<"G">> >>,
          << Call("1", "1", "30", "20"), Call("0", "1", "99", "30"),
             Call("0", "1", "20", "10"), Call("0", "1", "30", "20") >>),
      Row(12, <<"A">>, << <<"C">> >>, << NoCall, NoCall, NoCall, NoCall >>),
      Row(13, <<"A">>, << <<"C">>, <<"G">> >>,
          << Call("1", "2", "20", "10"), Call("0", "1", "30", "20"), NoCall, NoCall >>) }

\* the streams read: up to MaxSites rows, in the order of their positions as
\* a VCF has them
Streams ==
    { s \in UNION {[1..n -> SiteChoices] : n \in 1..MaxSites} :
        \A i \in 1..(Len(s) - 1) : s[i].pos <= s[i + 1].pos }

\* lines 547-553: what choose_samples returns for the genotypes of each row
\* of a stream, each alternate allele (1-based) and each class
ChoicesOf(rows) ==
    [i \in 1..Len(rows) |->
        [k \in 1..Len(rows[i].alt) |->
            [class \in {"het", "hom"} |->
                choose_samples(class, k, vcf_row_parser(sample_names, rows[i]).genotypes,
                               sample_name_include_status, sample_name_to_bam_path,
                               sample_name_to_gvcf_path, readable_bam_paths)]]]

Interval(chrom, start, end) == [chrom |-> chrom, start |-> start, end |-> end]

\* one region around every site; or regions that end at position 11, leave
\* position 12 uncovered and cover position 13 twice; chromosome 2 is covered
\* by a region of its own
IntervalSets ==
    { {Interval("1", 1, 100), Interval("2", 1, 100)},
      {Interval("1", 1, 11), Interval("1", 13, 14), Interval("1", 13, 15),
       Interval("2", 1, 100)} }

Instances == 1..n_threads

\* the output bams an earlier, interrupted run may have left under
\* bam_output_dir: none, or the first het bam of the variant 1:11 T>G
EarlierBams ==
    { {}, {compute_reassembled_bam_path("1", 11, <<"T">>, <<"G">>, "het", 0)} }

NoVariant == [chrom |-> "", minrep_pos |-> 0, minrep_ref |-> <<>>, minrep_alt |-> <<>>,
              region_start |-> 0, region_end |-> 0]
NoSamples == [het |-> <<>>, hom |-> <<>>]
NoRow == [chrom |-> "", pos |-> 0, ref |-> <<>>, alt_alleles |-> <<>>, genotypes |-> <<>>]

Init ==
    /\ SelOff
    /\ DecOff
    /\ MinOff
    /\ n_threads \in 1..MaxShards
    /\ stream \in Streams
    /\ choices = ChoicesOf(stream)
    /\ intervals \in IntervalSets
    /\ run_haplotype_caller \in BOOLEAN
    /\ create_links_to_original_bams \in BOOLEAN
    \* with the caller run, the flag only decides whether create_symlink is
    \* called, which touches nothing of this state: one value stands for both
    /\ run_haplotype_caller => ~create_links_to_original_bams
    /\ reassembled_bams \in EarlierBams
    /\ pc = [t \in Instances |-> "scan"]
    /\ sites = [t \in Instances |-> 0]
    /\ row = [t \in Instances |-> NoRow]
    /\ alt_allele_index = [t \in Instances |-> 0]
    /\ variant = [t \in Instances |-> NoVariant]
    /\ chosen_samples = [t \in Instances |-> NoSamples]
    /\ het_or_hom = [t \in Instances |-> "het"]
    /\ sample_i = [t \in Instances |-> 0]
    /\ relative_reassembled_bam_paths = [t \in Instances |-> NoSamples]
    /\ variants_db = [t \in Instances |-> {}]
    /\ variants_db2 = [t \in Instances |-> {}]
    /\ hc_failed = [t \in Instances |-> FALSE]
    /\ bam_events = [t \in Instances |-> {}]
    /\ acted = [t \in Instances |-> {}]

\* lines 501-502 for the current alternate allele
current_minrep(t) ==
    get_minimal_representation(row[t].pos, row[t].ref,
                               row[t].alt_alleles[alt_allele_index[t] + 1])

\* lines 519-520 for the current alternate allele
current_regions(t) == overlapping_regions(intervals, row[t].chrom, current_minrep(t)[1])

\* lines 547-553 for the current alternate allele of the current row
current_choice(t, class) == choices[sites[t]][alt_allele_index[t] + 1][class]

\* lines 502 and 525: the locals of the loop body
the_variant(chrom, minrep, region) ==
    [chrom |-> chrom, minrep_pos |-> minrep[1], minrep_ref |-> minrep[2],
     minrep_alt |-> minrep[3], region_start |-> region.start, region_end |-> region.end]

VariantKey(v) == <<v.chrom, v.minrep_pos, v.minrep_ref, v.minrep_alt>>

\* where the loops of lines 488 and 498 go after the current allele
after_allele(t) ==
    IF alt_allele_index[t] + 1 < Len(row[t].alt_alleles) THEN "allele" ELSE "scan"

\* lines 488-494: a site of another instance is skipped
SkipRow(t) ==
    /\ t \in Instances
    /\ pc[t] = "scan"
    /\ sites[t] < Len(stream)
    /\ ~owns_site(sites[t] + 1, n_threads, zero_based_thread_i(t))
    /\ sites' = [sites EXCEPT ![t] = @ + 1]
    /\ UNCHANGED <<reassembled_bams, pc, row, alt_allele_index, variant, chosen_samples,
                   het_or_hom, sample_i, relative_reassembled_bam_paths, variants_db,
                   variants_db2, hc_failed, bam_events,
                   acted>>
    /\ UNCHANGED <<sel_vars, dec_vars, min_vars, input_vars>>

\* lines 488-496: a site of this instance is parsed
ReadRow(t) ==
    /\ t \in Instances
    /\ pc[t] = "scan"
    /\ sites[t] < Len(stream)
    /\ owns_site(sites[t] + 1, n_threads, zero_based_thread_i(t))
    /\ sites' = [sites EXCEPT ![t] = @ + 1]
    /\ acted' = [acted EXCEPT ![t] = @ \cup {sites[t] + 1}]
    /\ \E parsed \in {vcf_row_parser(sample_names, stream[sites[t] + 1])} :
          IF parsed.raised
          THEN /\ pc' = [pc EXCEPT ![t] = "crashed"]
               /\ UNCHANGED <<row, alt_allele_index>>
          ELSE /\ pc' = [pc EXCEPT ![t] = "allele"]
               /\ row' = [row EXCEPT ![t] =
                            [chrom |-> parsed.chrom, pos |-> parsed.pos,
                             ref |-> parsed.ref, alt_alleles |-> parsed.alt_alleles,
                             genotypes |-> parsed.genotypes]]
               /\ alt_allele_index' = [alt_allele_index EXCEPT ![t] = 0]
    /\ UNCHANGED <<reassembled_bams, variant, chosen_samples, het_or_hom, sample_i,
                   relative_reassembled_bam_paths, variants_db, variants_db2, hc_failed,
                   bam_events>>
    /\ UNCHANGED <<sel_vars, dec_vars, min_vars, input_vars>>

\* lines 674-678: the stream is exhausted
Finish(t) ==
    /\ t \in Instances
    /\ pc[t] = "scan"
    /\ sites[t] = Len(stream)
    /\ pc' = [pc EXCEPT ![t] = "finished"]
    /\ UNCHANGED <<reassembled_bams, sites, row, alt_allele_index, variant, chosen_samples,
                   het_or_hom, sample_i, relative_reassembled_bam_paths, variants_db,
                   variants_db2, hc_failed, bam_events,
                   acted>>
    /\ UNCHANGED <<sel_vars, dec_vars, min_vars, input_vars>>

\* lines 522-523: no region, or several, overlap the variant
RegionAssertionFails(t) ==
    /\ t \in Instances
    /\ pc[t] = "allele"
    /\ Cardinality(current_regions(t)) # 1
    /\ pc' = [pc EXCEPT ![t] = "crashed"]
    /\ UNCHANGED <<reassembled_bams, sites, row, alt_allele_index, variant, chosen_samples,
                   het_or_hom, sample_i, relative_reassembled_bam_paths, variants_db,
                   variants_db2, hc_failed, bam_events,
                   acted>>
    /\ UNCHANGED <<sel_vars, dec_vars, min_vars, input_vars>>

\* mutant: the test of line 556 never skips
never_skipped(het, hom) == FALSE

\* line 556
no_samples_chosen(het, hom) == Len(het) + Len(hom) = 0

\* lines 544-559: no sample chosen, the allele is skipped (or the KeyError of
\* choose_samples ends the instance)
SkipVariant(t) ==
    /\ t \in Instances
    /\ pc[t] = "allele"
    /\ \E regions \in {current_regions(t)} :
       \E het \in {current_choice(t, "het")}, hom \in {current_choice(t, "hom")} :
           /\ Cardinality(regions) = 1
           /\ het.raised \/ hom.raised
                \/ no_samples_chosen(het.bams_to_display, hom.bams_to_display)
           /\ \E region \in regions :
                 variant' = [variant EXCEPT ![t] =
                               the_variant(row[t].chrom, current_minrep(t), region)]
           /\ IF het.raised \/ hom.raised
              THEN /\ pc' = [pc EXCEPT ![t] = "crashed"]
                   /\ UNCHANGED <<alt_allele_index, chosen_samples>>
              ELSE /\ pc' = [pc EXCEPT ![t] = after_allele(t)]
                   /\ alt_allele_index' = [alt_allele_index EXCEPT ![t] = @ + 1]
                   /\ chosen_samples' = [chosen_samples EXCEPT ![t] = NoSamples]
    /\ hc_failed' = [hc_failed EXCEPT ![t] = FALSE]
    /\ bam_events' = [bam_events EXCEPT ![t] = {}]
    /\ UNCHANGED <<reassembled_bams, sites, row, het_or_hom, sample_i,
                   relative_reassembled_bam_paths, variants_db, variants_db2, acted>>
    /\ UNCHANGED <<sel_vars, dec_vars, min_vars, input_vars>>

\* lines 561-565: the row of variants_db for a variant and its chosen samples
progress_row(v, chosen) ==
    [chrom |-> v.chrom, minrep_pos |-> v.minrep_pos, minrep_ref |-> v.minrep_ref,
     minrep_alt |-> v.minrep_alt,
     n_het |-> Len(chosen.het), n_hom_alt |-> Len(chosen.hom),
     reassembled_bams_het |-> <<>>, reassembled_bams_hom |-> <<>>, finished |-> 0]

\* lines 544-568: samples are chosen and the variant goes into variants_db
AddVariant(t) ==
    /\ t \in Instances
    /\ pc[t] = "allele"
    /\ \E regions \in {current_regions(t)} :
       \E het \in {current_choice(t, "het")}, hom \in {current_choice(t, "hom")} :
           /\ Cardinality(regions) = 1
           /\ ~(het.raised \/ hom.raised)
           /\ ~no_samples_chosen(het.bams_to_display, hom.bams_to_display)
           /\ \E region \in regions :
              \E v \in {the_variant(row[t].chrom, current_minrep(t), region)} :
              \E chosen \in {[het |-> het.bams_to_display, hom |-> hom.bams_to_display]} :
                 /\ variant' = [variant EXCEPT ![t] = v]
                 /\ chosen_samples' = [chosen_samples EXCEPT ![t] = chosen]
                 /\ variants_db' = [variants_db EXCEPT ![t] =
                                       insert_or_ignore(@, progress_row(v, chosen))]
    /\ pc' = [pc EXCEPT ![t] = "private"]
    /\ hc_failed' = [hc_failed EXCEPT ![t] = FALSE]
    /\ bam_events' = [bam_events EXCEPT ![t] = {}]
    /\ UNCHANGED <<reassembled_bams, sites, row, alt_allele_index, het_or_hom, sample_i,
                   relative_reassembled_bam_paths, variants_db2, acted>>
    /\ UNCHANGED <<sel_vars, dec_vars, min_vars, input_vars>>

\* the bam paths (paths[0]) of a list of chosen samples, lines 574-575
bam_paths_of(chosen) == [i \in 1..Len(chosen) |-> chosen[i][1]]

\* lines 570-585: the variant goes into variants_db2; the loops of lines 586
\* and 590 start at the first chosen sample
AddPrivate(t) ==
    /\ t \in Instances
    /\ pc[t] = "private"
    /\ variants_db2' = [variants_db2 EXCEPT ![t] =
          insert_or_ignore(@, [chrom |-> variant[t].chrom,
                               minrep_pos |-> variant[t].minrep_pos,
                               minrep_ref |-> variant[t].minrep_ref,
                               minrep_alt |-> variant[t].minrep_alt,
                               calling_region_start |-> variant[t].region_start,
                               calling_region_end |-> variant[t].region_end,
                               het_sample_names |-> bam_paths_of(chosen_samples[t].het),
                               hom_alt_sample_names |-> bam_paths_of(chosen_samples[t].hom)])]
    /\ relative_reassembled_bam_paths' = [relative_reassembled_bam_paths EXCEPT ![t] = NoSamples]
    /\ het_or_hom' = [het_or_hom EXCEPT ![t] =
                         IF chosen_samples[t].het # <<>> THEN "het" ELSE "hom"]
    /\ sample_i' = [sample_i EXCEPT ![t] = 0]
    /\ pc' = [pc EXCEPT ![t] = "samples"]
    /\ UNCHANGED <<reassembled_bams, sites, row, alt_allele_index, variant, chosen_samples,
                   variants_db, hc_failed, bam_events,
                   acted>>
    /\ UNCHANGED <<sel_vars, dec_vars, min_vars, input_vars>>

\* lines 592-600: the output path of the current sample
output_bam_path(t) ==
    compute_reassembled_bam_path(variant[t].chrom, variant[t].minrep_pos,
                                 variant[t].minrep_ref, variant[t].minrep_alt,
                                 het_or_hom[t], sample_i[t])

\* lines 602-605, and the loops of lines 586 and 590 moving to the next
\* chosen sample, or past the last one
NextSample(t) ==
    /\ relative_reassembled_bam_paths' =
          [relative_reassembled_bam_paths EXCEPT
              ![t][het_or_hom[t]] = Append(@, output_bam_path(t))]
    /\ IF sample_i[t] + 1 < Len(chosen_samples[t][het_or_hom[t]])
       THEN /\ sample_i' = [sample_i EXCEPT ![t] = @ + 1]
            /\ UNCHANGED <<het_or_hom, pc>>
       ELSE IF het_or_hom[t] = "het" /\ chosen_samples[t].hom # <<>>
       THEN /\ het_or_hom' = [het_or_hom EXCEPT ![t] = "hom"]
            /\ sample_i' = [sample_i EXCEPT ![t] = 0]
            /\ UNCHANGED pc
       ELSE /\ pc' = [pc EXCEPT ![t] = "update"]
            /\ het_or_hom' = [het_or_hom EXCEPT ![t] = "hom"]
            /\ UNCHANGED sample_i

\* lines 251-310: the output bam exists afterwards iff the caller exits with 0
launch_haplotype_caller(bams, output_path, exit_status) ==
    IF exit_status = 0 THEN bams \cup {output_path} ELSE bams

\* lines 613-617: the output bam is there already
BamAlreadyThere(t) ==
    /\ t \in Instances
    /\ pc[t] = "samples"
    /\ run_haplotype_caller
    /\ output_bam_path(t) \in reassembled_bams
    /\ NextSample(t)
    /\ bam_events' = [bam_events EXCEPT ![t] = @ \cup {<<output_bam_path(t), "found">>}]
    /\ UNCHANGED <<reassembled_bams, sites, row, alt_allele_index, variant, chosen_samples,
                   variants_db, variants_db2, hc_failed, acted>>
    /\ UNCHANGED <<sel_vars, dec_vars, min_vars, input_vars>>

\* lines 619-637: the caller runs and exits with 0
CallerSucceeds(t) ==
    /\ t \in Instances
    /\ pc[t] = "samples"
    /\ run_haplotype_caller
    /\ output_bam_path(t) \notin reassembled_bams
    /\ reassembled_bams' = launch_haplotype_caller(reassembled_bams, output_bam_path(t), 0)
    /\ NextSample(t)
    /\ bam_events' = [bam_events EXCEPT ![t] = @ \cup {<<output_bam_path(t), "called">>}]
    /\ UNCHANGED <<sites, row, alt_allele_index, variant, chosen_samples,
                   variants_db, variants_db2, hc_failed, acted>>
    /\ UNCHANGED <<sel_vars, dec_vars, min_vars, input_vars>>

\* mutant: the CalledProcessError leaves launch_haplotype_caller
caller_error_propagates == FALSE

\* lines 301-304: except subprocess.CalledProcessError
caller_error_caught == TRUE

\* lines 619-637: the caller runs and exits with another status; check_gvcf
\* finds no new gvcf and returns True
CallerFails(t) ==
    /\ t \in Instances
    /\ pc[t] = "samples"
    /\ run_haplotype_caller
    /\ output_bam_path(t) \notin reassembled_bams
    /\ reassembled_bams' = launch_haplotype_caller(reassembled_bams, output_bam_path(t), 1)
    /\ hc_failed' = [hc_failed EXCEPT ![t] = TRUE]
    /\ bam_events' = [bam_events EXCEPT ![t] = @ \cup {<<output_bam_path(t), "called">>}]
    /\ IF caller_error_caught
       THEN NextSample(t)
       ELSE /\ pc' = [pc EXCEPT ![t] = "crashed"]
            /\ UNCHANGED <<het_or_hom, sample_i, relative_reassembled_bam_paths>>
    /\ UNCHANGED <<sites, row, alt_allele_index, variant, chosen_samples,
                   variants_db, variants_db2, acted>>
    /\ UNCHANGED <<sel_vars, dec_vars, min_vars, input_vars>>

\* lines 613 and 636-637: no caller, symlinks only
LinksOnly(t) ==
    /\ t \in Instances
    /\ pc[t] = "samples"
    /\ ~run_haplotype_caller
    /\ create_links_to_original_bams
    /\ NextSample(t)
    /\ UNCHANGED <<reassembled_bams, sites, row, alt_allele_index, variant, chosen_samples,
                   variants_db, variants_db2, hc_failed, bam_events,
                   acted>>
    /\ UNCHANGED <<sel_vars, dec_vars, min_vars, input_vars>>

\* line 636: without --run-haplotype-caller gvcfs_match is unbound
UnboundGvcfsMatch(t) ==
    /\ t \in Instances
    /\ pc[t] = "samples"
    /\ ~run_haplotype_caller
    /\ ~create_links_to_original_bams
    /\ relative_reassembled_bam_paths' =
          [relative_reassembled_bam_paths EXCEPT
              ![t][het_or_hom[t]] = Append(@, output_bam_path(t))]
    /\ pc' = [pc EXCEPT ![t] = "crashed"]
    /\ UNCHANGED <<reassembled_bams, sites, row, alt_allele_index, variant, chosen_samples,
                   het_or_hom, sample_i, variants_db, variants_db2, hc_failed, bam_events,
                   acted>>
    /\ UNCHANGED <<sel_vars, dec_vars, min_vars, input_vars>>

\* lines 664-672: the row is marked finished
MarkFinished(t) ==
    /\ t \in Instances
    /\ pc[t] = "update"
    /\ variants_db' = [variants_db EXCEPT ![t] =
          update_finished(@, VariantKey(variant[t]),
                          relative_reassembled_bam_paths[t].het,
                          relative_reassembled_bam_paths[t].hom)]
    /\ pc' = [pc EXCEPT ![t] = after_allele(t)]
    /\ alt_allele_index' = [alt_allele_index EXCEPT ![t] = @ + 1]
    /\ UNCHANGED <<reassembled_bams, sites, row, variant, chosen_samples, het_or_hom, sample_i,
                   relative_reassembled_bam_paths, variants_db2, hc_failed, bam_events,
                   acted>>
    /\ UNCHANGED <<sel_vars, dec_vars, min_vars, input_vars>>

Next ==
    \E t \in 1..MaxShards :
    \/ SkipRow(t)
    \/ ReadRow(t)
    \/ Finish(t)
    \/ RegionAssertionFails(t)
    \/ SkipVariant(t)
    \/ AddVariant(t)
    \/ AddPrivate(t)
    \/ BamAlreadyThere(t)
    \/ CallerSucceeds(t)
    \/ CallerFails(t)
    \/ LinksOnly(t)
    \/ UnboundGvcfsMatch(t)
    \/ MarkFinished(t)

Spec == Init /\ [][Next]_vars

\* the steps of one instance
Step(t) ==
    \/ SkipRow(t) \/ ReadRow(t) \/ Finish(t) \/ RegionAssertionFails(t)
    \/ SkipVariant(t) \/ AddVariant(t) \/ AddPrivate(t) \/ BamAlreadyThere(t)
    \/ CallerSucceeds(t) \/ CallerFails(t) \/ LinksOnly(t) \/ UnboundGvcfsMatch(t)
    \/ MarkFinished(t)

\* every instance is a process of its own that keeps running; the caller and
\* the database calls return
SpecFair == Spec /\ \A t \in 1..MaxShards : WF_vars(Step(t))

\* --------------------------------------------------------------- SpecRow
\* the GT tokens of a sample column, split at "/"
DecGTs ==
    { <<"0", "0">>, <<"0", "1">>, <<"1", "1">>, <<"1", "2">>, <<"2", "2">>,
      <<"-1", "1">>, <<"x", "1">>, <<"1", "x">>, <<".", "1">>, <<"0">> }

\* sample columns: a GT with GQ and DP tokens that float() takes or not; the
\* no-call
DecColumns ==
    { Call(gt[1], gt[2], q[1], q[2]) :
        gt \in {g \in DecGTs : Len(g) = 2},
        q \in {<<"30", "20">>, <<"x", "20">>, <<"30", ".">>} }
    \cup { [GT |-> gt, GQ |-> "30", DP |-> "20"] : gt \in {g \in DecGTs : Len(g) # 2} }
    \cup { NoCall }

\* the header's sample names: a readable included sample first
DecSampleNames == [i \in 1..NumDecSamples |-> <<1, 4, 2, 3>>[((i - 1) % 4) + 1]]

DecRows ==
    { Row(13, <<"A">>, alt, genotypes) :
        alt \in { << <<"C">> >>, << <<"C">>, <<"G">> >> },
        genotypes \in [1..NumDecSamples -> DecColumns] }

DecInit ==
    /\ dec_pc = "read"
    /\ dec_fields \in DecRows
    /\ dec_row = <<>>
    /\ dec_choice = <<>>
    /\ SelOff
    /\ MinOff
    /\ MainOff

\* line 496: parse_vcf_row(row)
DecParse ==
    /\ dec_pc = "read"
    /\ \E parsed \in {vcf_row_parser(DecSampleNames, dec_fields)} :
          /\ dec_pc' = IF parsed.raised THEN "raised" ELSE "parsed"
          /\ dec_row' = IF parsed.raised THEN <<>> ELSE parsed
    /\ UNCHANGED <<dec_fields, dec_choice>>
    /\ UNCHANGED <<sel_vars, min_vars, input_vars, main_vars>>

\* lines 546-553: choose_samples on the parsed genotypes, for one class and
\* one alternate allele
DecChoose ==
    /\ dec_pc = "parsed"
    /\ \E class \in {"het", "hom"}, k \in 1..Len(dec_row.alt_alleles) :
          dec_choice' =
             [het_or_hom |-> class, alt_allele_index |-> k,
              chosen |-> choose_samples(class, k, dec_row.genotypes,
                                        sample_name_include_status,
                                        sample_name_to_bam_path,
                                        sample_name_to_gvcf_path, readable_bam_paths)]
    /\ dec_pc' = "chosen"
    /\ UNCHANGED <<dec_fields, dec_row>>
    /\ UNCHANGED <<sel_vars, min_vars, input_vars, main_vars>>

NextRow == DecParse \/ DecChoose

SpecRow == DecInit /\ [][NextRow]_vars

\* ------------------------------------------------------------- SpecMin
\* get_minimal_representation on every variant over two bases whose alleles
\* have up to MaxAlleleLen bases, then on its own result
Alleles == UNION { [1..n -> {"A", "C"}] : n \in 1..MaxAlleleLen }

MinInit ==
    /\ min_pc = "input"
    /\ min_in \in {1, 10} \X Alleles \X Alleles
    /\ min_out = <<>>
    /\ min_again = <<>>
    /\ SelOff
    /\ DecOff
    /\ MainOff

\* line 501: get_minimal_representation(pos, ref, alt)
MinReduce ==
    /\ min_pc = "input"
    /\ min_out' = get_minimal_representation(min_in[1], min_in[2], min_in[3])
    /\ min_pc' = "once"
    /\ UNCHANGED <<min_in, min_again>>
    /\ UNCHANGED <<sel_vars, dec_vars, input_vars, main_vars>>

\* the same call on the triple it returned
MinReduceAgain ==
    /\ min_pc = "once"
    /\ min_again' = get_minimal_representation(min_out[1], min_out[2], min_out[3])
    /\ min_pc' = "twice"
    /\ UNCHANGED <<min_in, min_out>>
    /\ UNCHANGED <<sel_vars, dec_vars, input_vars, main_vars>>

NextMin == MinReduce \/ MinReduceAgain

SpecMin == MinInit /\ [][NextMin]_vars

\* ------------------------------------------------- claims on choose_samples
\* the sample an entry (bam path, gvcf path) of bams_to_display locates
SampleOf(entry) == entry[1].file
\* the item of the genotype map an entry was chosen for
ItemOf(entry) == sel_item[SampleOf(entry)]
\* the entry choose_samples appends for a sample whose bam is readable
LocatorsOf(sample_name) ==
    <<relocated_bam_path(InfoBamPath(sample_name)), InfoGvcfPath(sample_name)>>
\* whether the filter loop appended the item it looked at last
LastWasAppended ==
    /\ relevant_samples # <<>>
    /\ relevant_samples[Len(relevant_samples)].sample_name = sel_last.sample_name

\* C5: choose_samples never holds, and so never returns, more than
\* MAX_SAMPLES_TO_SHOW_PER_VARIANT (5) entries.
C5_AtMostFive == Len(bams_to_display) <= MAX_SAMPLES_TO_SHOW_PER_VARIANT

\* five are returned while a further candidate was left on the list
C5_Witness ==
    /\ sel_pc = "returned"
    /\ Len(bams_to_display) = MAX_SAMPLES_TO_SHOW_PER_VARIANT
    /\ relevant_samples # <<>>

\* C6: every sample whose evidence is in bams_to_display has DP >= 10 and
\* GQ >= 20, is not a no-call and has include status YES.
C6_QualityFloor ==
    \A i \in 1..Len(bams_to_display) :
        LET item == ItemOf(bams_to_display[i])
        IN  /\ item.DP >= 10
            /\ item.GQ >= 20
            /\ ~(item.gt_ref = None /\ item.gt_alt = None)
            /\ item.include = "YES"

\* a sample exactly on both thresholds is returned, others were left out
C6_Witness ==
    /\ sel_pc = "returned"
    /\ \E i \in 1..Len(bams_to_display) :
          ItemOf(bams_to_display[i]).GQ = 20 /\ ItemOf(bams_to_display[i]).DP = 10
    /\ Len(bams_to_display) < sel_seen

\* C7: bams_to_display is in descending order of GQ, and entries of equal GQ
\* are in the order of their samples in the genotype map (column order).
C7_RankedStable ==
    \A i, j \in 1..Len(bams_to_display) :
        i < j =>
            LET a == ItemOf(bams_to_display[i])
                b == ItemOf(bams_to_display[j])
            IN  \/ a.GQ > b.GQ
                \/ (a.GQ = b.GQ /\ a.sample_name < b.sample_name)

\* a returned list with a tie, a descent that reverses the column order,
\* and a skipped candidate in between
C7_Witness ==
    /\ sel_pc = "returned"
    /\ sel_failed # {}
    /\ \E i, j, k \in 1..Len(bams_to_display) :
          /\ i < j /\ j < k
          /\ ItemOf(bams_to_display[i]).GQ = ItemOf(bams_to_display[j]).GQ
          /\ ItemOf(bams_to_display[j]).GQ > ItemOf(bams_to_display[k]).GQ
          /\ SampleOf(bams_to_display[j]) > SampleOf(bams_to_display[k])
          /\ \E f \in sel_failed :
                SampleOf(bams_to_display[i]) < f /\ f < SampleOf(bams_to_display[j])

\* C8: in the het class, a called sample that passes the thresholds and is
\* included becomes a candidate exactly when its two allele indices differ
\* and one of them is alt_allele_index.
C8_HetClass ==
    (/\ sel_het_or_hom = "het"
     /\ sel_last # NoItem
     /\ ~(sel_last.gt_ref = None /\ sel_last.gt_alt = None)
     /\ sel_last.DP >= 10 /\ sel_last.GQ >= 20
     /\ sel_last.include = "YES")
    => (LastWasAppended <=>
            /\ sel_last.gt_ref # sel_last.gt_alt
            /\ (sel_last.gt_ref = sel_alt_allele_index
                \/ sel_last.gt_alt = sel_alt_allele_index))

\* the call 1/2 became a het candidate for allele 1
C8_Witness ==
    /\ sel_het_or_hom = "het"
    /\ sel_alt_allele_index = 1
    /\ sel_last.gt_ref = 1 /\ sel_last.gt_alt = 2
    /\ LastWasAppended

RECURSIVE Resolved(_)
\* the locators of the samples of a ranked list whose get_bam_path did not raise
Resolved(ranked) ==
    IF ranked = <<>> THEN <<>>
    ELSE IF Head(ranked).sample_name \in sel_failed
         THEN Resolved(Tail(ranked))
         ELSE <<LocatorsOf(Head(ranked).sample_name)>> \o Resolved(Tail(ranked))

\* C10: once the candidates are ranked, bams_to_display is the locators of
\* the candidates tried so far, in ranked order, without those whose
\* resolution failed; the untried rest stays in ranked order; a failure never
\* ends the selection: it returns only with the list empty or five chosen, and
\* never tries a candidate after the fifth success.
C10_SkipAndContinue ==
    /\ sel_failed # {} => sel_pc \in {"display", "returned"}
    /\ sel_pc \in {"display", "returned"} =>
          LET tried == Len(sel_ranked) - Len(relevant_samples)
          IN  /\ tried >= 0
              /\ relevant_samples = SubSeq(sel_ranked, tried + 1, Len(sel_ranked))
              /\ bams_to_display = Resolved(SubSeq(sel_ranked, 1, tried))
              /\ (Len(bams_to_display) = MAX_SAMPLES_TO_SHOW_PER_VARIANT
                    => sel_ranked[tried].sample_name \notin sel_failed)
    /\ sel_pc = "returned" =>
          \/ relevant_samples = <<>>
          \/ Len(bams_to_display) = MAX_SAMPLES_TO_SHOW_PER_VARIANT

\* the top-ranked candidate failed and lower-ranked ones were still returned
C10_Witness ==
    /\ sel_pc = "returned"
    /\ Len(sel_ranked) >= 3
    /\ sel_ranked[1].sample_name \in sel_failed
    /\ sel_ranked[2].sample_name \in sel_failed
    /\ Len(bams_to_display) >= 1

\* ------------------------------------------------------- claims on main()
Keys(t) == {KeyOf(r) : r \in t}
AllFinished == \A t \in Instances : pc[t] = "finished"

\* C1: once an instance has finished a variant for which a caller run
\* failed, the variant's row of variants_db still has finished = 0.
C1_FailedCallLeavesUnfinished ==
    \A t \in Instances :
        (pc[t] \in {"allele", "scan", "finished"} /\ hc_failed[t]) =>
            \A r \in variants_db[t] :
                KeyOf(r) = VariantKey(variant[t]) => r.finished = 0

\* the keys of the rows a scan adds for site i of the stream: the minimal
\* representations of its alternate alleles with a chosen sample
SiteKeys(i) ==
    LET parsed == vcf_row_parser(sample_names, stream[i])
    IN  { <<parsed.chrom, m[1], m[2], m[3]>> :
            m \in { get_minimal_representation(parsed.pos, parsed.ref, parsed.alt_alleles[k]) :
                    k \in { k \in 1..Len(parsed.alt_alleles) :
                            \E class \in {"het", "hom"} :
                               choose_samples(class, k, parsed.genotypes,
                                   sample_name_include_status, sample_name_to_bam_path,
                                   sample_name_to_gvcf_path,
                                   readable_bam_paths).bams_to_display # <<>> } } }

\* the key set of a completed scan of the whole stream
StreamKeys == UNION {SiteKeys(i) : i \in 1..Len(stream)}

\* C2: the key sets of the rows of different instances are
\* pairwise disjoint, and when all have finished their union is the key set
\* of the whole stream, which is what the single instance of a run with
\* n_threads = 1 ends with.
C2_KeysDisjointAndComplete ==
    /\ \A t1, t2 \in Instances :
          t1 # t2 => Keys(variants_db[t1]) \cap Keys(variants_db[t2]) = {}
    /\ AllFinished => UNION {Keys(variants_db[t]) : t \in Instances} = StreamKeys

\* C3: a site is acted on only by the instance whose 0-based index is the
\* 1-based site counter modulo n_threads, never by two instances, and every
\* site that all instances have passed was acted on by one of them.
C3_EachSiteOneShard ==
    /\ \A t \in Instances : \A i \in acted[t] : i % n_threads = t - 1
    /\ \A t1, t2 \in Instances : t1 # t2 => acted[t1] \cap acted[t2] = {}
    /\ \A i \in 1..Len(stream) :
          (\A t \in Instances : sites[t] >= i) => \E t \in Instances : i \in acted[t]

\* two instances have scanned a stream of two sites and taken one each
C3_Witness ==
    /\ n_threads = 2
    /\ Len(stream) = 2
    /\ AllFinished
    /\ acted[1] = {2} /\ acted[2] = {1}

\* C4: recording a variant whose key is already in variants_db leaves the
\* table as it is, and the table never holds two rows of one key.
C4_InsertIfAbsent ==
    [][\A t \in Instances :
          /\ (/\ pc[t] = "allele" /\ pc'[t] = "private"
              /\ VariantKey(variant'[t]) \in Keys(variants_db[t]))
             => variants_db'[t] = variants_db[t]
          /\ \A r1, r2 \in variants_db'[t] : KeyOf(r1) = KeyOf(r2) => r1 = r2]_vars

\* a variant was recorded again with other counts than its row holds
C4_Witness ==
    \E t \in Instances :
        /\ pc[t] = "private"
        /\ \E r \in variants_db[t] :
              /\ KeyOf(r) = VariantKey(variant[t])
              /\ r.finished = 1
              /\ r.n_hom_alt # Len(chosen_samples[t].hom)

\* every genotype of the current row is the no-call
AllNoCall(t) ==
    \A i \in 1..Len(row[t].genotypes) :
        row[t].genotypes[i].gt_ref = None /\ row[t].genotypes[i].gt_alt = None

\* C9: for a row of no-calls choose_samples returns the empty list for both
\* classes and every allele, and the step leaves both tables alone; a step
\* that adds a row to either table is one for a variant with a chosen sample.
C9_NoSamplesNoRow ==
    [][\A t \in Instances :
          /\ (pc[t] = "allele" /\ AllNoCall(t)) =>
                /\ current_choice(t, "het").bams_to_display = <<>>
                /\ current_choice(t, "hom").bams_to_display = <<>>
                /\ variants_db'[t] = variants_db[t]
                /\ variants_db2'[t] = variants_db2[t]
                /\ pc'[t] \in {"allele", "scan", "crashed"}
          /\ (Keys(variants_db'[t]) # Keys(variants_db[t]) /\ pc[t] = "allele") =>
                Len(current_choice(t, "het").bams_to_display)
                   + Len(current_choice(t, "hom").bams_to_display) >= 1
          /\ Keys(variants_db'[t]) # Keys(variants_db[t]) => pc[t] = "allele"
          /\ Keys(variants_db2'[t]) # Keys(variants_db2[t]) =>
                /\ pc[t] = "private"
                /\ Len(chosen_samples[t].het) + Len(chosen_samples[t].hom) >= 1
                /\ VariantKey(variant[t]) \in Keys(variants_db[t])]_vars

\* an instance has gone through a row of no-calls and has no row in either table
C9_Witness ==
    \E t \in Instances :
        /\ pc[t] = "scan"
        /\ row[t] # NoRow
        /\ AllNoCall(t)
        /\ variants_db[t] = {} /\ variants_db2[t] = {}

\* every variant of the stream lies in exactly one calling region
EveryVariantInOneRegion ==
    \A i \in 1..Len(stream) : \A k \in 1..Len(stream[i].alt) :
        Cardinality(overlapping_regions(intervals, stream[i].chrom,
            get_minimal_representation(stream[i].pos, stream[i].ref,
                                       stream[i].alt[k])[1])) = 1

RegionsAt(t) ==
    {r \in intervals : /\ r.chrom = row[t].chrom
                       /\ r.start <= current_minrep(t)[1]
                       /\ current_minrep(t)[1] <= r.end}

\* C12: the step an instance takes at a variant ends the instance, leaving
\* both tables alone, unless exactly one calling region of the chromosome
\* contains the minimal position (bounds included); with exactly one, the
\* instance goes on with the bounds of that region.
C12_ExactlyOneRegion ==
    [][\A t \in Instances :
          (pc[t] = "allele" /\ <<pc[t], alt_allele_index[t]>>' # <<pc[t], alt_allele_index[t]>>)
          => IF Cardinality(RegionsAt(t)) = 1
             THEN /\ pc'[t] # "crashed"
                  /\ \E r \in RegionsAt(t) :
                        /\ variant'[t].region_start = r.start
                        /\ variant'[t].region_end = r.end
             ELSE /\ pc'[t] = "crashed"
                  /\ variants_db'[t] = variants_db[t]
                  /\ variants_db2'[t] = variants_db2[t]
                  /\ variant'[t] = variant[t]]_vars

\* an instance went on at a position that is the end of its one region, and
\* was ended by the next row, at a position two regions contain
C12_Witness ==
    \E t \in Instances :
        /\ pc[t] = "crashed"
        /\ variant[t].minrep_pos = 11 /\ variant[t].region_end = 11
        /\ row[t].pos = 13
        /\ Cardinality(overlapping_regions(intervals, "1", 13)) = 2

\* ------------------------------------------------ claims on vcf_row_parser
\* the columns of the row in hand
DecCols == 1..Len(dec_fields.genotypes)

\* a column whose GT the parser takes: the no-call, or two integer tokens
\* none of which is above the number of alternate alleles
GTTaken(i) ==
    LET GT == dec_fields.genotypes[i].GT
    IN  \/ GT = <<".", ".">>
        \/ /\ Len(GT) = 2
           /\ GT[1] \in DOMAIN IntTokens /\ GT[2] \in DOMAIN IntTokens
           /\ IntTokens[GT[1]] <= Len(dec_fields.alt)
           /\ IntTokens[GT[2]] <= Len(dec_fields.alt)

\* a called column whose GQ or DP token float() refuses
QualityUnparsed(i) ==
    /\ dec_fields.genotypes[i].GT # <<".", ".">>
    /\ \/ dec_fields.genotypes[i].GQ \notin DOMAIN FloatTokens
       \/ dec_fields.genotypes[i].DP \notin DOMAIN FloatTokens

\* the samples of the entries choose_samples returned
DecChosenSamples ==
    {dec_choice.chosen.bams_to_display[j][1].file :
        j \in 1..Len(dec_choice.chosen.bams_to_display)}

\* C13: a row is returned whenever every GT of it is taken, whatever its GQ
\* and DP tokens; a called sample whose GQ or DP token is not a number has
\* GQ = DP = 0 in the returned row, and choose_samples returns it for no
\* class and no alternate allele.
C13_UnparsedQualityIsZero ==
    /\ (dec_pc \in {"parsed", "raised", "chosen"} /\ \A i \in DecCols : GTTaken(i))
          => dec_pc # "raised"
    /\ dec_pc \in {"parsed", "chosen"} =>
          \A i \in DecCols :
             QualityUnparsed(i) =>
                dec_row.genotypes[i].GQ = 0 /\ dec_row.genotypes[i].DP = 0
    /\ dec_pc = "chosen" =>
          \A i \in DecCols :
             QualityUnparsed(i) => DecSampleNames[i] \notin DecChosenSamples

\* the first sample is het with a GQ that is no number, the second one is
\* het as well and is the one returned
C13_Witness ==
    /\ dec_pc = "chosen"
    /\ dec_fields.genotypes[1] = Call("0", "1", "x", "20")
    /\ dec_choice.het_or_hom = "het" /\ dec_choice.alt_allele_index = 1
    /\ DecChosenSamples = {DecSampleNames[2]}

\* a column whose GT has two parts, one of them no integer
NonIntegerIndex(i) ==
    LET GT == dec_fields.genotypes[i].GT
    IN  /\ GT # <<".", ".">>
        /\ Len(GT) = 2
        /\ GT[1] \notin DOMAIN IntTokens \/ GT[2] \notin DOMAIN IntTokens

\* C14: a row whose GTs are taken, but for columns with a non-integer allele
\* index, is returned, and these columns are no-calls in it.
C14_NonIntegerIndexIsNoCall ==
    (/\ dec_pc # "read"
     /\ \E i \in DecCols : NonIntegerIndex(i)
     /\ \A i \in DecCols : NonIntegerIndex(i) \/ GTTaken(i))
    => /\ dec_pc \in {"parsed", "chosen"}
       /\ \A i \in DecCols :
             NonIntegerIndex(i) =>
                /\ dec_row.genotypes[i].gt_ref = None
                /\ dec_row.genotypes[i].gt_alt = None

\* C15: every call of a returned row is either the no-call, with allele
\* indices, GQ and DP all absent, or has all four, with both allele indices
\* between 0 and the number of alternate alleles of the row.
C15_CallsInRange ==
    dec_pc \in {"parsed", "chosen"} =>
        \A i \in DecCols :
            LET c == dec_row.genotypes[i]
                n == Len(dec_row.alt_alleles)
            IN  \/ c.gt_ref = None /\ c.gt_alt = None /\ c.GQ = None /\ c.DP = None
                \/ /\ c.gt_ref # None /\ c.gt_alt # None /\ c.GQ # None /\ c.DP # None
                   /\ 0 <= c.gt_ref /\ c.gt_ref <= n
                   /\ 0 <= c.gt_alt /\ c.gt_alt <= n

\* C16: choose_samples is not ended by a sample the info table lacks,
\* whatever the genotype, GQ and DP of that sample.
C16_UnknownSampleNotFatal ==
    (sel_last # NoItem /\ sel_last.include = "absent") => sel_pc # "raised"

\* C17: get_minimal_representation applied to its own result returns that
\* result, and neither allele it returns is empty.
C17_MinrepIdempotent ==
    /\ min_pc \in {"once", "twice"} => Len(min_out[2]) > 0 /\ Len(min_out[3]) > 0
    /\ min_pc = "twice" =>
          /\ min_again = min_out
          /\ Len(min_again[2]) > 0 /\ Len(min_again[3]) > 0

\* both a suffix and a prefix were stripped, and the result was reduced again
C17_Witness ==
    /\ min_pc = "twice"
    /\ min_out[1] > min_in[1]
    /\ Len(min_in[2]) - Len(min_out[2]) > min_out[1] - min_in[1]

\* the caller is about to be run for the current sample of instance t
CallerDue(t) ==
    /\ pc[t] = "samples"
    /\ run_haplotype_caller
    /\ output_bam_path(t) \notin reassembled_bams

\* the rows of variants_db of instance t for its current variant
CurrentRows(t) == {r \in variants_db[t] : KeyOf(r) = VariantKey(variant[t])}

\* C18: whenever the caller is run for a sample of a variant, the variant has
\* a row in variants_db with finished = 0 (so the row is marked finished only
\* after the last run for the variant), also when the same minimal variant
\* is met a second time.
C18_UnfinishedWhileCalling ==
    \A t \in Instances :
        CallerDue(t) =>
            /\ CurrentRows(t) # {}
            /\ \A r \in CurrentRows(t) : r.finished = 0

\* whether a row of variants_db lists an output path among its bams
Listed(path, r) ==
    \/ \E i \in 1..Len(r.reassembled_bams_het) : r.reassembled_bams_het[i] = path
    \/ \E i \in 1..Len(r.reassembled_bams_hom) : r.reassembled_bams_hom[i] = path

\* C19: for an output bam found readable, the caller is not run for that
\* sample, the file stays, and once the instance is through the variant its
\* row has finished = 1 and lists the file.
C19_ExistingBamIsKept ==
    \A t \in Instances :
        \A e \in bam_events[t] :
            e[2] = "found" =>
                /\ <<e[1], "called">> \notin bam_events[t]
                /\ e[1] \in reassembled_bams
                /\ pc[t] \in {"allele", "scan", "finished"} =>
                      /\ CurrentRows(t) # {}
                      /\ \A r \in CurrentRows(t) : r.finished = 1 /\ Listed(e[1], r)

\* an instance is through a variant for which one bam was found and the
\* caller was run for another
C19_Witness ==
    \E t \in Instances :
        /\ pc[t] \in {"scan", "finished"}
        /\ \E e1, e2 \in bam_events[t] : e1[2] = "found" /\ e2[2] = "called"

\* C20: every key of variants_db2 is a key of variants_db, neither table has
\* two rows with one key, and outside the two inserts of a variant the
\* tables have the same keys.
C20_TablesAgree ==
    \A t \in Instances :
        /\ Keys(variants_db2[t]) \subseteq Keys(variants_db[t])
        /\ Cardinality(variants_db[t]) = Cardinality(Keys(variants_db[t]))
        /\ Cardinality(variants_db2[t]) = Cardinality(Keys(variants_db2[t]))
        /\ pc[t] # "private" => Keys(variants_db2[t]) = Keys(variants_db[t])

\* an instance has met a minimal variant a second time, with other numbers
\* of chosen samples than its row of variants_db has, and gone through both
\* inserts
C20_Witness ==
    \E t \in Instances :
        /\ pc[t] = "samples"
        /\ Cardinality(acted[t]) = 2
        /\ \E r \in CurrentRows(t) :
              r.n_het + r.n_hom_alt
                 # Len(chosen_samples[t].het) + Len(chosen_samples[t].hom)
        /\ variants_db2[t] # {}

\* C21: every row of variants_db with finished = 1 lists n_het het bams
\* and n_hom_alt hom bams, also after its variant was recorded and finished
\* more than once.
C21_CountsMatchLists ==
    \A t \in Instances :
        \A r \in variants_db[t] :
            r.finished = 1 =>
                /\ Len(r.reassembled_bams_het) = r.n_het
                /\ Len(r.reassembled_bams_hom) = r.n_hom_alt

====
